---- MODULE Spec2Model ----
(***************************************************************************)
(* disk_scanner: the concurrent directory traversal of src/scanner.rs      *)
(* (run_scan, walk_directory_recursive) and the progress reporter of       *)
(* src/progress.rs, as a state machine.                                    *)
(*                                                                         *)
(* The file system is a finite tree of entries fixed by Init.  Entry 0 is  *)
(* the scan target; entries 1..n are directory entries, each with the      *)
(* directory it is listed in (parent) and what the system calls made on it *)
(* answer (kind).  One traversal invocation exists per directory entry; it *)
(* is identified by the entry it lists.                                    *)
(***************************************************************************)
EXTENDS Integers, Sequences, FiniteSets, TLC

\* ------------------------------------------------------------------ bounds
\* The largest number of directory entries below the scan target.
MaxEntries == 4
\* The largest configured max_concurrent_tasks.
MaxPermits == 2
\* The largest number of spawned traversal tasks that end abnormally.
MaxAborts == 1
\* The largest number of entries that are not a plain file or directory.
MaxOdd == 1
\* The largest number of entries in the scans that report progress or meet an
\* entry that is not plain.
MaxBusy == 3
\* The largest number of entries in the scans started from a command line that
\* leaves out --threads, gives --threads 0 or gives --timeout.
MaxTimed == 2
\* The largest --timeout, in seconds.
MaxTimeout == 1
\* The largest number of CPUs num_cpus::get() reports.
MaxCpus == 1

VARIABLES
    parent,     \* parent[e]: the directory entry e is listed in
    kind,       \* kind[e]: what the file system answers for entry e
    doomed,     \* the directories whose spawned task panics or is cancelled
    config,     \* ScannerConfig
    caller,     \* main(): its command line, its machine, the seconds it has waited
    main,       \* run_scan: its position, its result
    permits,    \* the permits the semaphore has available
    task,       \* task[d]: the invocation of walk_directory_recursive on d
    chan,       \* the progress channel: the events sent and not yet received
    reporter    \* ProgressReporter::run: its position and its two counters

vars == <<parent, kind, doomed, config, caller, main, permits, task, chan, reporter>>

env == <<parent, kind, doomed, config, caller>>

\* ------------------------------------------------------------ file system
Root == 0

Entries == DOMAIN parent

Dirs == {Root} \cup Entries

\* A byte of a file name that is not valid UTF-8.
InvalidByte == "0xFF"

\* A file name (an OsStr) is the sequence of its characters; InvalidByte stands
\* in it for a byte that is no character.
NameOf(e) ==
    CASE e = 1 -> <<"r", "e", "p">>
      [] e = 2 -> <<".", "r", "e">>
      [] e = 3 -> <<".", InvalidByte>>
      [] e = 4 -> <<"a", "r", "e">>
      [] OTHER -> <<"f", "5">>

\* The byte length the metadata of entry e reports.
SizeOf(e) ==
    CASE e = 1 -> 10
      [] e = 2 -> 20
      [] e = 3 -> 40
      [] e = 4 -> 5
      [] OTHER -> 80

RootPath == << <<"t", "o", "p">> >>

\* What a file is, as the system calls of the traversal see it:
\*   file, dir         a regular file, a directory
\*   file_nometa       a regular file whose metadata cannot be read
\*   dir_noread        a directory that read_dir cannot open
\*   link_file/_dir    a symbolic link to a regular file / to a directory
\*   link_broken       a symbolic link whose target cannot be resolved
\*   link_other        a symbolic link to something else (a fifo, a device)
\*   other             a fifo, socket or device
\*   ft_err            an entry whose file_type() call fails
\*   readerr           next_entry() fails at this place of the listing
PlainKinds == {"file", "dir"}

OddKinds == {"file_nometa", "dir_noread", "link_file", "link_dir",
             "link_broken", "link_other", "other", "ft_err", "readerr"}

Kinds == PlainKinds \cup OddKinds

\* read_dir lists the entries of a directory in a fixed order.
Listing(d) ==
    SelectSeq([i \in 1..Cardinality(Entries) |-> i], LAMBDA e : parent[e] = d)

Children(d) == {e \in Entries : parent[e] = d}

\* entry.file_type(): the kind of the entry itself, symbolic links not followed.
FileType(e) ==
    CASE kind[e] \in {"file", "file_nometa"} -> "file"
      [] kind[e] \in {"dir", "dir_noread"} -> "dir"
      [] kind[e] \in {"link_file", "link_dir", "link_broken", "link_other"} -> "symlink"
      [] kind[e] = "ft_err" -> "err"
      [] OTHER -> "other"

\* fs::metadata(&path): the metadata of what the path resolves to, links followed.
TargetMetadata(e) ==
    CASE kind[e] = "link_file" -> [ok |-> TRUE, is_file |-> TRUE, is_dir |-> FALSE, len |-> SizeOf(e)]
      [] kind[e] = "link_dir" -> [ok |-> TRUE, is_file |-> FALSE, is_dir |-> TRUE, len |-> 0]
      [] kind[e] = "link_other" -> [ok |-> TRUE, is_file |-> FALSE, is_dir |-> FALSE, len |-> 0]
      [] OTHER -> [ok |-> FALSE, is_file |-> FALSE, is_dir |-> FALSE, len |-> 0]

\* entry.metadata() of a regular file.
EntryMetadata(e) ==
    IF kind[e] = "file"
    THEN [ok |-> TRUE, len |-> SizeOf(e)]
    ELSE [ok |-> FALSE, len |-> 0]

\* fs::read_dir(&current_path) succeeds.
ReadDirOk(d) == kind[d] \in {"dir", "link_dir"}

\* ---------------------------------------------------------------- values
NoPattern == <<>>

\* The pattern of the runs that configure one: the regular expression "re".
ThePattern == <<"r", "e">>

\* Regex::is_match for a pattern of literal characters: the pattern occurs
\* somewhere in the text.
IsMatch(pattern, text) ==
    \E i \in 1..(Len(text) - Len(pattern) + 1) :
        SubSeq(text, i, i + Len(pattern) - 1) = pattern

\* OsStr::to_str: the name as a str, if every byte of it is valid UTF-8.
ToStr(name) ==
    IF \A i \in 1..Len(name) : name[i] # InvalidByte
    THEN [some |-> TRUE, str |-> name]
    ELSE [some |-> FALSE, str |-> <<>>]

\* file_name.starts_with('.') && file_name != "." && file_name != ".."
IsHiddenName(name) ==
    /\ Len(name) > 0
    /\ Head(name) = "."
    /\ name # <<".">>
    /\ name # <<".", ".">>

IoError(path) == [variant |-> "IoError", path |-> path]

NotADirectory(path) == [variant |-> "NotADirectory", path |-> path]

MetadataError(path) == [variant |-> "MetadataError", path |-> path]

NewItemFound == [tag |-> "NewItemFound", bytes |-> 0]

BytesProcessed(n) == [tag |-> "BytesProcessed", bytes |-> n]

ErrorEncountered == [tag |-> "ErrorEncountered", bytes |-> 0]

ScanCompleted == [tag |-> "ScanCompleted", bytes |-> 0]

\* What one pass of the per-entry loop adds to the invocation's locals.
Nothing ==
    [files |-> 0, dirs |-> 0, size |-> 0, errors |-> <<>>, events |-> <<>>,
     spawn |-> <<>>, matches |-> <<>>]

\* Sent as it would be if the sender were kept when progress is disabled.
SentAnyway(events) == events

\* if let Some(tx) = &progress_tx { let _ = tx.send(..); }
Sent(events) == IF config.progress_updates THEN events ELSE <<>>

\* SymlinkArm as it would be if links were followed whatever the configuration.
SymlinkArmAlwaysFollows(e, path) ==
    LET md == TargetMetadata(e) IN
    IF ~md.ok
    THEN [Nothing EXCEPT !.errors = <<MetadataError(path)>>,
                         !.events = <<ErrorEncountered>>]
    ELSE IF md.is_file
    THEN [Nothing EXCEPT !.files = 1, !.size = md.len,
                         !.events = <<NewItemFound, BytesProcessed(md.len)>>]
    ELSE IF md.is_dir
    THEN [Nothing EXCEPT !.dirs = 1, !.events = <<NewItemFound>>,
                         !.spawn = <<e>>]
    ELSE Nothing

\* The symbolic-link arm of the loop body.
SymlinkArm(e, path) ==
    LET md == TargetMetadata(e) IN
    IF ~config.follow_symlinks THEN Nothing
    ELSE IF ~md.ok
    THEN [Nothing EXCEPT !.errors = <<MetadataError(path)>>,
                         !.events = <<ErrorEncountered>>]
    ELSE IF md.is_file
    THEN [Nothing EXCEPT !.files = 1, !.size = md.len,
                         !.events = <<NewItemFound, BytesProcessed(md.len)>>]
    ELSE IF md.is_dir
    THEN [Nothing EXCEPT !.dirs = 1, !.events = <<NewItemFound>>,
                         !.spawn = <<e>>]
    ELSE Nothing

\* if let Some(pattern) = &config.file_pattern { if pattern.is_match(file_name) ..
PatternArm(path) ==
    LET file_name == ToStr(path[Len(path)]) IN
    IF config.file_pattern # NoPattern
       /\ file_name.some
       /\ IsMatch(config.file_pattern, file_name.str)
    THEN <<path>>
    ELSE <<>>

\* FileArm as it would be if it added the size of a file twice.
FileArmAddsTwice(e, path) ==
    LET md == EntryMetadata(e) IN
    IF md.ok
    THEN [Nothing EXCEPT !.files = 1, !.size = md.len + md.len,
                         !.events = <<NewItemFound, BytesProcessed(md.len)>>,
                         !.matches = PatternArm(path)]
    ELSE [Nothing EXCEPT !.errors = <<MetadataError(path)>>,
                         !.events = <<ErrorEncountered>>]

\* The regular-file arm of the loop body.
FileArm(e, path) ==
    LET md == EntryMetadata(e) IN
    IF md.ok
    THEN [Nothing EXCEPT !.files = 1, !.size = md.len,
                         !.events = <<NewItemFound, BytesProcessed(md.len)>>,
                         !.matches = PatternArm(path)]
    ELSE [Nothing EXCEPT !.errors = <<MetadataError(path)>>,
                         !.events = <<ErrorEncountered>>]

\* The directory arm of the loop body.
DirArm(e, path) ==
    [Nothing EXCEPT !.dirs = 1, !.events = <<NewItemFound>>, !.spawn = <<e>>]

\* One pass of the while loop over the listing: what next_entry() yielded is
\* entry e of the directory at current_path.
LoopBody(e, current_path) ==
    LET path == Append(current_path, NameOf(e)) IN
    IF kind[e] = "readerr"
    THEN [Nothing EXCEPT !.errors = <<IoError(current_path)>>,
                         !.events = <<ErrorEncountered>>]
    ELSE IF /\ ~config.include_hidden
            /\ ToStr(NameOf(e)).some
            /\ IsHiddenName(ToStr(NameOf(e)).str)
    THEN Nothing
    ELSE IF FileType(e) = "err"
    THEN [Nothing EXCEPT !.errors = <<IoError(path)>>,
                         !.events = <<ErrorEncountered>>]
    ELSE IF FileType(e) = "symlink" THEN SymlinkArm(e, path)
    ELSE IF FileType(e) = "file" THEN FileArm(e, path)
    ELSE IF FileType(e) = "dir" THEN DirArm(e, path)
    ELSE Nothing

\* ------------------------------------------------------------------ state
\* A traversal invocation that has not been spawned.
Unspawned ==
    [pc |-> "unspawned", current_path |-> <<>>, permit |-> FALSE, next |-> 1,
     files_count |-> 0, dirs_count |-> 0, current_size |-> 0, errors |-> <<>>,
     sub_task_paths_to_spawn |-> <<>>, matching_files_in_dir |-> <<>>,
     awaited |-> 0, sent |-> <<>>]

\* walk_directory_recursive(current_path, ..) as it is called or spawned.
Started(current_path) ==
    [Unspawned EXCEPT !.pc = "acquire", !.current_path = current_path]

Live(t) == task[t].pc \notin {"unspawned", "returned", "aborted"}

RECURSIVE AncestorsIn(_, _)
\* The directories entry e lies in, the scan target included.
AncestorsIn(p, e) == IF e = Root THEN {} ELSE {p[e]} \cup AncestorsIn(p, p[e])

\* The trees of n entries, the entries numbered in depth-first order: an entry
\* lies in the entry before it or in a directory that one lies in, and only a
\* directory that can be listed has entries.
TreeOk(n, p, k) ==
    /\ \A e \in 1..n : p[e] < e
    /\ \A e \in 2..n : p[e] \in {e - 1} \cup AncestorsIn(p, e - 1)
    /\ \A e \in 1..n : p[e] # Root => k[p[e]] \in {"dir", "link_dir"}

\* The kinds of n entries, the entries in odd being the ones that are not plain.
KindsOf(n, odd) ==
    {[e \in 0..n |-> IF e = Root THEN "dir"
                     ELSE IF e \in odd THEN ko[e] ELSE kp[e]] :
        ko \in [odd -> OddKinds], kp \in [(1..n) \ odd -> PlainKinds]}

\* The configurations that count every entry they see.
Plainly(tasks, progress) ==
    [max_concurrent_tasks : tasks,
     follow_symlinks : {TRUE},
     include_hidden : {TRUE},
     progress_updates : progress,
     file_pattern : {ThePattern}]

\* Every setting of the flags.
Anyhow(tasks) ==
    [max_concurrent_tasks : tasks,
     follow_symlinks : BOOLEAN,
     include_hidden : BOOLEAN,
     progress_updates : BOOLEAN,
     file_pattern : {NoPattern, ThePattern}]

\* A scan of a tree of at most size entries, at most odds of them not plain,
\* at most aborts of its tasks ending abnormally, under one of configs.
Scan(size, odds, aborts, configs) ==
    /\ \E n \in 0..size :
         /\ parent \in [1..n -> 0..(size - 1)]
         /\ \E odd \in SUBSET (1..n) :
              /\ Cardinality(odd) <= odds
              /\ kind \in KindsOf(n, odd)
         /\ TreeOk(n, parent, kind)
         /\ doomed \in SUBSET {e \in 1..n : kind[e] \in {"dir", "dir_noread", "link_dir"}}
         /\ Cardinality(doomed) <= aborts
         /\ task = [d \in 0..n |-> Unspawned]
    /\ config \in configs

\* An Option: None, Some(x).
None == [some |-> FALSE, value |-> 0]

Some(x) == [some |-> TRUE, value |-> x]

\* cli_args.threads.unwrap_or(num_cpus::get() * 2)
ConcurrentTasks(threads, num_cpus) ==
    IF threads.some THEN threads.value ELSE num_cpus * 2

\* The command lines that CliArgs::parse() accepts, as far as --threads and
\* --timeout go: both are optional, both take any unsigned integer.
CliArgs ==
    [threads : {None} \cup {Some(n) : n \in 0..MaxPermits},
     timeout : {None} \cup {Some(n) : n \in 1..MaxTimeout}]

\* main() as it calls run_scan: the command line cli_args on a machine of
\* num_cpus CPUs.
Calls(cli_args, num_cpus) ==
    [threads |-> cli_args.threads, timeout |-> cli_args.timeout,
     num_cpus |-> num_cpus, elapsed |-> 0]

\* The scans whose limit was given with --threads and that have no timeout.
WithThreads ==
    caller = Calls([threads |-> Some(config.max_concurrent_tasks), timeout |-> None],
                   MaxCpus)

\* The scans of the other command lines: no --threads, --threads 0, --timeout.
OtherCommandLines ==
    \E cli_args \in CliArgs, num_cpus \in 1..MaxCpus :
        /\ ~cli_args.threads.some \/ cli_args.threads.value = 0 \/ cli_args.timeout.some
        /\ caller = Calls(cli_args, num_cpus)
        /\ Scan(MaxTimed, 0, 0,
                Plainly({ConcurrentTasks(cli_args.threads, num_cpus)}, {FALSE}))

\* A scan whose target is missing, is a file, or cannot be listed.
BadTarget ==
    /\ parent = <<>>
    /\ kind \in [{Root} -> {"missing", "file", "dir_noread"}]
    /\ doomed = {}
    /\ task = [d \in {Root} |-> Unspawned]
    /\ config \in Anyhow(1..MaxPermits)

Init ==
    /\ \/ Scan(MaxEntries, 0, MaxAborts, Plainly(1..MaxPermits, {FALSE})) /\ WithThreads
       \/ Scan(MaxBusy, 0, MaxAborts, Plainly(1..MaxPermits, {TRUE})) /\ WithThreads
       \/ Scan(MaxBusy, MaxOdd, 0, Anyhow({MaxPermits})) /\ WithThreads
       \/ BadTarget /\ WithThreads
       \/ OtherCommandLines
    /\ main = [pc |-> "validate", result |-> <<>>, error |-> <<>>]
    /\ permits = 0
    /\ chan = <<>>
    /\ reporter = [pc |-> "none", total_items |-> 0, total_bytes |-> 0]

\* ---------------------------------------------------------------- run_scan
\* RunScanValidate as it would be without the is_dir test.
RunScanValidateAnyKind ==
    /\ main.pc = "validate"
    /\ main' = CASE kind[Root] = "missing" ->
                      [main EXCEPT !.pc = "err", !.error = IoError(RootPath)]
                 [] OTHER -> [main EXCEPT !.pc = "setup"]
    /\ UNCHANGED <<env, permits, task, chan, reporter>>

\* fs::metadata(&root_path) and the is_dir test.
RunScanValidate ==
    /\ main.pc = "validate"
    /\ main' = CASE kind[Root] = "missing" ->
                      [main EXCEPT !.pc = "err", !.error = IoError(RootPath)]
                 [] kind[Root] = "file" ->
                      [main EXCEPT !.pc = "err", !.error = NotADirectory(RootPath)]
                 [] OTHER -> [main EXCEPT !.pc = "setup"]
    /\ UNCHANGED <<env, permits, task, chan, reporter>>

\* The channel, the reporter task, the semaphore, the NewItemFound of the root,
\* and the call of walk_directory_recursive on the root.
RunScanSetup ==
    /\ main.pc = "setup"
    /\ reporter' = IF config.progress_updates
                   THEN [reporter EXCEPT !.pc = "running"]
                   ELSE reporter
    /\ permits' = config.max_concurrent_tasks
    /\ chan' = chan \o Sent(<<NewItemFound>>)
    /\ task' = [task EXCEPT ![Root] = Started(RootPath)]
    /\ main' = [main EXCEPT !.pc = "walk"]
    /\ UNCHANGED env

\* The root invocation has returned: ScanCompleted is sent.
RunScanSignal ==
    /\ main.pc = "walk"
    /\ task[Root].pc = "returned"
    /\ chan' = chan \o Sent(<<ScanCompleted>>)
    /\ main' = [main EXCEPT !.pc = "join_reporter"]
    /\ UNCHANGED <<env, permits, task, reporter>>

\* ScanResult as it would be if the root were not added to the directories.
ScanResultWithoutRoot(t) ==
    [total_files |-> t.files_count,
     total_directories |-> t.dirs_count,
     total_size |-> t.current_size,
     errors |-> t.errors,
     matching_files |-> t.matching_files_in_dir]

\* The ScanResult of run_scan, from the tuple the root invocation returned.
ScanResult(t) ==
    [total_files |-> t.files_count,
     total_directories |-> t.dirs_count + 1,
     total_size |-> t.current_size,
     errors |-> t.errors,
     matching_files |-> t.matching_files_in_dir]

\* RunScanReturn as it would be if the reporter's handle were not awaited.
RunScanReturnWithoutJoin ==
    /\ main.pc = "join_reporter"
    /\ main' = [main EXCEPT !.pc = "ok", !.result = ScanResult(task[Root])]
    /\ UNCHANGED <<env, permits, task, chan, reporter>>

\* handle.await on the reporter, then the ScanResult.
RunScanReturn ==
    /\ main.pc = "join_reporter"
    /\ config.progress_updates => reporter.pc = "finished"
    /\ main' = [main EXCEPT !.pc = "ok", !.result = ScanResult(task[Root])]
    /\ UNCHANGED <<env, permits, task, chan, reporter>>

\* ------------------------------------------------ walk_directory_recursive
\* Acquire as it would be if it did not wait for a permit to be free.
AcquireWithoutWaiting(t) ==
    /\ task[t].pc = "acquire"
    /\ permits' = permits - 1
    /\ task' = [task EXCEPT ![t].pc = "read_dir", ![t].permit = TRUE]
    /\ UNCHANGED <<env, main, chan, reporter>>

\* semaphore.acquire().await
Acquire(t) ==
    /\ task[t].pc = "acquire"
    /\ permits > 0
    /\ permits' = permits - 1
    /\ task' = [task EXCEPT ![t].pc = "read_dir", ![t].permit = TRUE]
    /\ UNCHANGED <<env, main, chan, reporter>>

\* ReadDirFails as it would be if the early return did not give the permit back.
ReadDirFailsKeepsPermit(t) ==
    /\ task[t].pc = "read_dir"
    /\ ~ReadDirOk(t)
    /\ t \notin doomed
    /\ task' = [task EXCEPT ![t].pc = "returned",
                            ![t].permit = FALSE,
                            ![t].errors = <<IoError(task[t].current_path)>>,
                            ![t].sent = Sent(<<ErrorEncountered>>)]
    /\ permits' = permits
    /\ chan' = chan \o Sent(<<ErrorEncountered>>)
    /\ UNCHANGED <<env, main, reporter>>

\* ReadDirFails as it would be if the failure were not recorded.
ReadDirFailsUnrecorded(t) ==
    /\ task[t].pc = "read_dir"
    /\ ~ReadDirOk(t)
    /\ t \notin doomed
    /\ task' = [task EXCEPT ![t].pc = "returned", ![t].permit = FALSE]
    /\ permits' = permits + 1
    /\ chan' = chan
    /\ UNCHANGED <<env, main, reporter>>

\* fs::read_dir fails: one IoError, one event, and the return, which drops the
\* permit.
ReadDirFails(t) ==
    /\ task[t].pc = "read_dir"
    /\ ~ReadDirOk(t)
    /\ t \notin doomed
    /\ task' = [task EXCEPT ![t].pc = "returned",
                            ![t].permit = FALSE,
                            ![t].errors = <<IoError(task[t].current_path)>>,
                            ![t].sent = Sent(<<ErrorEncountered>>)]
    /\ permits' = permits + 1
    /\ chan' = chan \o Sent(<<ErrorEncountered>>)
    /\ UNCHANGED <<env, main, reporter>>

\* fs::read_dir succeeds.
ReadDir(t) ==
    /\ task[t].pc = "read_dir"
    /\ ReadDirOk(t)
    /\ task' = [task EXCEPT ![t].pc = "entries"]
    /\ UNCHANGED <<env, main, permits, chan, reporter>>

\* next_entry() yields one more entry: one pass of the loop.
NextEntry(t) ==
    /\ task[t].pc = "entries"
    /\ task[t].next <= Len(Listing(t))
    /\ LET r == LoopBody(Listing(t)[task[t].next], task[t].current_path) IN
         /\ task' = [task EXCEPT
                ![t].next = @ + 1,
                ![t].files_count = @ + r.files,
                ![t].dirs_count = @ + r.dirs,
                ![t].current_size = @ + r.size,
                ![t].errors = @ \o r.errors,
                ![t].sub_task_paths_to_spawn = @ \o r.spawn,
                ![t].matching_files_in_dir = @ \o r.matches,
                ![t].sent = @ \o Sent(r.events)]
         /\ chan' = chan \o Sent(r.events)
    /\ UNCHANGED <<env, main, permits, reporter>>

\* DropPermit as it would be if the permit were kept while the children run.
DropPermitKept(t) ==
    /\ task[t].pc = "entries"
    /\ task[t].next > Len(Listing(t))
    /\ task' = [task EXCEPT ![t].pc = "spawn"]
    /\ UNCHANGED <<env, main, permits, chan, reporter>>

\* next_entry() yields None: drop(permit).
DropPermit(t) ==
    /\ task[t].pc = "entries"
    /\ task[t].next > Len(Listing(t))
    /\ task' = [task EXCEPT ![t].pc = "spawn", ![t].permit = FALSE]
    /\ permits' = permits + 1
    /\ UNCHANGED <<env, main, chan, reporter>>

\* tokio::spawn of one invocation per queued sub-path.
SpawnChildren(t) ==
    /\ task[t].pc = "spawn"
    /\ LET q == task[t].sub_task_paths_to_spawn
           queued == {q[i] : i \in 1..Len(q)} IN
         task' = [d \in DOMAIN task |->
                    IF d = t THEN [task[t] EXCEPT !.pc = "join"]
                    ELSE IF d \in queued
                    THEN Started(Append(task[t].current_path, NameOf(d)))
                    ELSE task[d]]
    /\ UNCHANGED <<env, main, permits, chan, reporter>>

\* AwaitChild as it would be if the parent took the child's tuple as it stands,
\* without waiting for the child to end.
AwaitChildWithoutWaiting(t) ==
    /\ task[t].pc = "join"
    /\ task[t].awaited < Len(task[t].sub_task_paths_to_spawn)
    /\ LET c == task[t].sub_task_paths_to_spawn[task[t].awaited + 1] IN
         \/ /\ task[c].pc # "aborted"
            /\ task' = [task EXCEPT
                   ![t].awaited = @ + 1,
                   ![t].files_count = @ + task[c].files_count,
                   ![t].dirs_count = @ + task[c].dirs_count,
                   ![t].current_size = @ + task[c].current_size,
                   ![t].errors = @ \o task[c].errors,
                   ![t].matching_files_in_dir = @ \o task[c].matching_files_in_dir]
            /\ chan' = chan
         \/ /\ task[c].pc = "aborted"
            /\ task' = [task EXCEPT
                   ![t].awaited = @ + 1,
                   ![t].sent = @ \o Sent(<<ErrorEncountered>>)]
            /\ chan' = chan \o Sent(<<ErrorEncountered>>)
    /\ UNCHANGED <<env, main, permits, reporter>>

\* AwaitChild as it would be if the files of a child were added twice.
AwaitChildMergesTwice(t) ==
    /\ task[t].pc = "join"
    /\ task[t].awaited < Len(task[t].sub_task_paths_to_spawn)
    /\ LET c == task[t].sub_task_paths_to_spawn[task[t].awaited + 1] IN
         \/ /\ task[c].pc = "returned"
            /\ task' = [task EXCEPT
                   ![t].awaited = @ + 1,
                   ![t].files_count = @ + task[c].files_count + task[c].files_count,
                   ![t].dirs_count = @ + task[c].dirs_count,
                   ![t].current_size = @ + task[c].current_size,
                   ![t].errors = @ \o task[c].errors,
                   ![t].matching_files_in_dir = @ \o task[c].matching_files_in_dir]
            /\ chan' = chan
         \/ /\ task[c].pc = "aborted"
            /\ task' = [task EXCEPT
                   ![t].awaited = @ + 1,
                   ![t].sent = @ \o Sent(<<ErrorEncountered>>)]
            /\ chan' = chan \o Sent(<<ErrorEncountered>>)
    /\ UNCHANGED <<env, main, permits, reporter>>

\* AwaitChild as it would be if a JoinError ended the loop over the handles.
AwaitChildGivesUp(t) ==
    /\ task[t].pc = "join"
    /\ task[t].awaited < Len(task[t].sub_task_paths_to_spawn)
    /\ LET c == task[t].sub_task_paths_to_spawn[task[t].awaited + 1] IN
         \/ /\ task[c].pc = "returned"
            /\ task' = [task EXCEPT
                   ![t].awaited = @ + 1,
                   ![t].files_count = @ + task[c].files_count,
                   ![t].dirs_count = @ + task[c].dirs_count,
                   ![t].current_size = @ + task[c].current_size,
                   ![t].errors = @ \o task[c].errors,
                   ![t].matching_files_in_dir = @ \o task[c].matching_files_in_dir]
            /\ chan' = chan
         \/ /\ task[c].pc = "aborted"
            /\ task' = [task EXCEPT
                   ![t].awaited = Len(task[t].sub_task_paths_to_spawn),
                   ![t].sent = @ \o Sent(<<ErrorEncountered>>)]
            /\ chan' = chan \o Sent(<<ErrorEncountered>>)
    /\ UNCHANGED <<env, main, permits, reporter>>

\* task_handle.await on the next child, in the order spawned: its result is
\* merged, or it is a JoinError.
AwaitChild(t) ==
    /\ task[t].pc = "join"
    /\ task[t].awaited < Len(task[t].sub_task_paths_to_spawn)
    /\ LET c == task[t].sub_task_paths_to_spawn[task[t].awaited + 1] IN
         \/ /\ task[c].pc = "returned"
            /\ task' = [task EXCEPT
                   ![t].awaited = @ + 1,
                   ![t].files_count = @ + task[c].files_count,
                   ![t].dirs_count = @ + task[c].dirs_count,
                   ![t].current_size = @ + task[c].current_size,
                   ![t].errors = @ \o task[c].errors,
                   ![t].matching_files_in_dir = @ \o task[c].matching_files_in_dir]
            /\ chan' = chan
         \/ /\ task[c].pc = "aborted"
            /\ task' = [task EXCEPT
                   ![t].awaited = @ + 1,
                   ![t].sent = @ \o Sent(<<ErrorEncountered>>)]
            /\ chan' = chan \o Sent(<<ErrorEncountered>>)
    /\ UNCHANGED <<env, main, permits, reporter>>

\* Every child has been awaited: the invocation returns its tuple.
Return(t) ==
    /\ task[t].pc = "join"
    /\ task[t].awaited = Len(task[t].sub_task_paths_to_spawn)
    /\ t \notin doomed
    /\ task' = [task EXCEPT ![t].pc = "returned"]
    /\ UNCHANGED <<env, main, permits, chan, reporter>>

\* A spawned task panics or is cancelled: its locals are dropped, the permit
\* among them; the tasks it spawned run on.
Abort(t) ==
    /\ t \in doomed
    /\ Live(t)
    /\ task' = [task EXCEPT ![t].pc = "aborted", ![t].permit = FALSE]
    /\ permits' = IF task[t].permit THEN permits + 1 ELSE permits
    /\ UNCHANGED <<env, main, chan, reporter>>

\* ------------------------------------------------- ProgressReporter::run
\* ReporterRecv as it would be if an ErrorEncountered counted as an item.
ReporterRecvCountsErrors ==
    /\ reporter.pc = "running"
    /\ chan # <<>>
    /\ LET update == Head(chan) IN
         reporter' =
            CASE update.tag = "NewItemFound" ->
                   [reporter EXCEPT !.total_items = @ + 1]
              [] update.tag = "BytesProcessed" ->
                   [reporter EXCEPT !.total_bytes = @ + update.bytes]
              [] update.tag = "ErrorEncountered" ->
                   [reporter EXCEPT !.total_items = @ + 1]
              [] OTHER -> [reporter EXCEPT !.pc = "finished"]
    /\ chan' = Tail(chan)
    /\ UNCHANGED <<env, main, permits, task>>

\* rx.recv().await yields the next update.
ReporterRecv ==
    /\ reporter.pc = "running"
    /\ chan # <<>>
    /\ LET update == Head(chan) IN
         reporter' =
            CASE update.tag = "NewItemFound" ->
                   [reporter EXCEPT !.total_items = @ + 1]
              [] update.tag = "BytesProcessed" ->
                   [reporter EXCEPT !.total_bytes = @ + update.bytes]
              [] update.tag = "ErrorEncountered" -> reporter
              [] OTHER -> [reporter EXCEPT !.pc = "finished"]
    /\ chan' = Tail(chan)
    /\ UNCHANGED <<env, main, permits, task>>

\* ---------------------------------------------------------------- main
\* A second passes while main() awaits run_scan.  The timeout of the command
\* line is in no expression of main(): nothing reads the time.
TimePasses ==
    /\ caller.timeout.some
    /\ caller.elapsed < caller.timeout.value
    /\ main.pc \notin {"ok", "err"}
    /\ caller' = [caller EXCEPT !.elapsed = @ + 1]
    /\ UNCHANGED <<parent, kind, doomed, config, main, permits, task, chan, reporter>>

Next ==
    \/ TimePasses
    \/ RunScanValidate
    \/ RunScanSetup
    \/ RunScanSignal
    \/ RunScanReturn
    \/ \E t \in DOMAIN task : Acquire(t)
    \/ \E t \in DOMAIN task : ReadDirFails(t)
    \/ \E t \in DOMAIN task : ReadDir(t)
    \/ \E t \in DOMAIN task : NextEntry(t)
    \/ \E t \in DOMAIN task : DropPermit(t)
    \/ \E t \in DOMAIN task : SpawnChildren(t)
    \/ \E t \in DOMAIN task : AwaitChild(t)
    \/ \E t \in DOMAIN task : Return(t)
    \/ \E t \in DOMAIN task : Abort(t)
    \/ ReporterRecv

Spec == Init /\ [][Next]_vars

\* The fairness of the runtime: as long as some task can take a step, one does.
FairSpec == Spec /\ WF_vars(Next)

\* ------------------------------------------------------- reference values
RECURSIVE PathOf(_)
\* The path of entry e: the names from the scan target down to it.
PathOf(e) == IF e = Root THEN RootPath ELSE Append(PathOf(parent[e]), NameOf(e))

\* The depth of entry e below the scan target.
DepthOf(e) == Len(PathOf(e)) - 1

\* The invocations that are listing: past acquire(), not past drop(permit).
Listers == {t \in DOMAIN task : task[t].pc \in {"read_dir", "entries"}}

Returned == main.pc = "ok"

\* The hidden filter passes over entry e.
Skips(e) ==
    /\ ~config.include_hidden
    /\ ToStr(NameOf(e)).some
    /\ IsHiddenName(ToStr(NameOf(e)).str)

\* Entry e is a file to the scan: a regular file whose metadata can be read or,
\* when links are followed, a link to a regular file.
CountsAsFile(e) ==
    /\ ~Skips(e)
    /\ \/ kind[e] = "file"
       \/ config.follow_symlinks /\ kind[e] = "link_file"

\* Entry e is a directory to the scan: a directory or, when links are followed,
\* a link to one.
CountsAsDir(e) ==
    /\ ~Skips(e)
    /\ \/ kind[e] \in {"dir", "dir_noread"}
       \/ config.follow_symlinks /\ kind[e] = "link_dir"

\* A pass of the per-entry loop has run on entry e.
Visited(e) ==
    LET d == parent[e] IN
    /\ task[d].pc # "unspawned"
    /\ task[d].next > Cardinality({x \in Children(d) : x <= e})

\* Every directory between the scan target and entry e is one the scan descends
\* into.
Reached(e) == \A a \in AncestorsIn(parent, e) \ {Root} : CountsAsDir(a)

\* Entry e is reached, and no invocation between the scan target and e ends
\* abnormally: what the invocation listing e counts arrives at the root.
Surfaced(e) ==
    /\ Reached(e)
    /\ \A a \in AncestorsIn(parent, e) : a \notin doomed

RECURSIVE SumOfSizes(_)
SumOfSizes(S) ==
    IF S = {} THEN 0
    ELSE LET x == CHOOSE y \in S : TRUE IN SizeOf(x) + SumOfSizes(S \ {x})

RECURSIVE SumOver(_, _)
\* The sum of the function f over the set S.
SumOver(S, f) ==
    IF S = {} THEN 0
    ELSE LET x == CHOOSE y \in S : TRUE IN f[x] + SumOver(S \ {x}, f)

\* The tuple an invocation returns, and the sum of two of them.
Tuple(files, dirs, size, errors, matches) ==
    [files |-> files, dirs |-> dirs, size |-> size, errors |-> errors,
     matches |-> matches]

Plus(a, b) ==
    Tuple(a.files + b.files, a.dirs + b.dirs, a.size + b.size,
          a.errors \o b.errors, a.matches \o b.matches)

RECURSIVE OnePass(_, _, _)
\* The loop over the listing from its i-th entry on, run in one go.
OnePass(listing, i, path) ==
    IF i > Len(listing) THEN Nothing
    ELSE LET r == LoopBody(listing[i], path)
             rest == OnePass(listing, i + 1, path) IN
         [files |-> r.files + rest.files, dirs |-> r.dirs + rest.dirs,
          size |-> r.size + rest.size, errors |-> r.errors \o rest.errors,
          events |-> r.events \o rest.events, spawn |-> r.spawn \o rest.spawn,
          matches |-> r.matches \o rest.matches]

RECURSIVE OneByOne(_, _)
RECURSIVE EachChild(_, _, _)
\* The tuple of directory d when one invocation runs at a time, each child to
\* its end before the next: a function of the tree, the configuration and the
\* tasks that end abnormally.
OneByOne(d, path) ==
    IF ~ReadDirOk(d) THEN Tuple(0, 0, 0, <<IoError(path)>>, <<>>)
    ELSE LET own == OnePass(Listing(d), 1, path) IN
         Plus(Tuple(own.files, own.dirs, own.size, own.errors, own.matches),
              EachChild(own.spawn, 1, path))

EachChild(queue, i, path) ==
    IF i > Len(queue) THEN Tuple(0, 0, 0, <<>>, <<>>)
    ELSE Plus(IF queue[i] \in doomed THEN Tuple(0, 0, 0, <<>>, <<>>)
              ELSE OneByOne(queue[i], Append(path, NameOf(queue[i]))),
              EachChild(queue, i + 1, path))

\* The recoverable error that meeting entry e raises, if any.
RaisesInLoop(e) ==
    \/ kind[e] = "readerr"
    \/ /\ ~Skips(e)
       /\ \/ kind[e] \in {"ft_err", "file_nometa"}
          \/ config.follow_symlinks /\ kind[e] = "link_broken"

\* The file of entry e is one the pattern arm adds to the matches.
MatchedInLoop(e) ==
    /\ ~Skips(e)
    /\ kind[e] = "file"
    /\ config.file_pattern # NoPattern
    /\ ToStr(NameOf(e)).some
    /\ IsMatch(config.file_pattern, ToStr(NameOf(e)).str)

\* How often x occurs in the sequence s.
Occurrences(x, s) == Cardinality({i \in 1..Len(s) : s[i] = x})

Range(s) == {s[i] : i \in 1..Len(s)}

\* ------------------------------------------------------------------ claims
\* C1: at most max_concurrent_tasks invocations are at any time between
\* acquiring their permit and releasing it, for every tree and interleaving.
C1_ConcurrencyLimit ==
    Cardinality(Listers) <= config.max_concurrent_tasks

\* C1 witness: the limit is reached by two listers while a third invocation
\* waits in acquire().
C1_LimitReached ==
    /\ config.max_concurrent_tasks = 2
    /\ Cardinality(Listers) = 2
    /\ \E t \in DOMAIN task : task[t].pc = "acquire"

ValidTarget == kind[Root] \in {"dir", "dir_noread"}

\* C2: with a valid root, under every fair interleaving and every limit >= 1,
\* run_scan returns Ok, whatever errors the entries and directories raise.
C2_ScanReturns == (ValidTarget /\ config.max_concurrent_tasks >= 1) ~> Returned

\* C2 witness: a scan has returned Ok with a limit of 1 on a tree that is deeper
\* and wider than the limit, one of its tasks having ended abnormally.
C2_ReturnedDeepAndWide ==
    /\ Returned
    /\ config.max_concurrent_tasks = 1
    /\ \E e \in Entries : DepthOf(e) >= 2
    /\ Cardinality({e \in Children(Root) : task[e].pc # "unspawned"}) >= 2
    /\ doomed # {}

\* C3 as claimed: on Ok, the two totals count the root and every file and
\* directory entry the traversal visited, each once and in one counter.
C3_TotalsCountVisited ==
    Returned =>
        /\ main.result.total_files =
             Cardinality({e \in Entries : Visited(e) /\ CountsAsFile(e)})
        /\ main.result.total_directories =
             1 + Cardinality({e \in Entries : Visited(e) /\ CountsAsDir(e)})

\* C3 as amended: on Ok, the two totals count the root and every file and
\* directory entry listed by an invocation that, like every invocation above
\* it, returned normally; each once and in one counter; total_directories is
\* the root invocation's directory count plus 1, and so at least 1.
C3_TotalsCountSurfaced ==
    Returned =>
        /\ main.result.total_files =
             Cardinality({e \in Entries : Surfaced(e) /\ CountsAsFile(e)})
        /\ main.result.total_directories =
             1 + Cardinality({e \in Entries : Surfaced(e) /\ CountsAsDir(e)})
        /\ main.result.total_directories = task[Root].dirs_count + 1
        /\ main.result.total_directories >= 1

\* C3 witness: a scan has returned Ok with files and directories counted, one
\* of them a directory whose own invocation ended abnormally after it had
\* counted a file.
C3_CountedAroundAbort ==
    /\ Returned
    /\ main.result.total_files >= 1
    /\ main.result.total_directories >= 3
    /\ \E d \in doomed : task[d].pc = "aborted" /\ task[d].files_count >= 1

\* C4: on Ok, total_size is the sum of the sizes of exactly the entries counted
\* in total_files, each once; directories add no bytes.
C4_SizeIsSumOfCountedFiles ==
    Returned =>
        LET counted == {e \in Entries : Surfaced(e) /\ CountsAsFile(e)} IN
        /\ main.result.total_files = Cardinality(counted)
        /\ main.result.total_size = SumOfSizes(counted)

\* C4 witness: the root holds files of 10 and 20 bytes and a directory holding
\* a file of 5 bytes, and the scan has returned 3 files, 2 directories, 35
\* bytes and no error.
C4_ScenarioOf35Bytes ==
    /\ Returned
    /\ parent = <<Root, Root, Root, 3>>
    /\ kind = [e \in 0..4 |-> IF e \in {Root, 3} THEN "dir" ELSE "file"]
    /\ doomed = {}
    /\ main.result.total_files = 3
    /\ main.result.total_directories = 2
    /\ main.result.total_size = 35
    /\ main.result.errors = <<>>

\* C5: for a fixed tree and configuration every interleaving returns the same
\* totals, the same set of matching files and the same multiset of errors:
\* those of the scan that runs one invocation at a time.
C5_SameResultInEveryInterleaving ==
    Returned =>
        LET ref == OneByOne(Root, RootPath)
            got == main.result IN
        /\ got.total_files = ref.files
        /\ got.total_directories = ref.dirs + 1
        /\ got.total_size = ref.size
        /\ Range(got.matching_files) = Range(ref.matches)
        /\ \A x \in Range(got.errors) \cup Range(ref.errors) :
               Occurrences(x, got.errors) = Occurrences(x, ref.errors)

\* C5 witness: two children of the root run at once and end in the other order
\* than the root awaits them: the second has returned its file, the first is
\* still listing.
C5_ChildrenEndOutOfOrder ==
    \E c1, c2 \in Children(Root) :
        /\ c1 < c2
        /\ task[Root].pc = "join" /\ task[Root].awaited = 0
        /\ task[c1].pc = "entries"
        /\ task[c2].pc = "returned" /\ task[c2].files_count >= 1

\* C6 as claimed: on Ok, every error an invocation has recorded is in the
\* errors of the result, every task that ended abnormally has an error there,
\* and a tree without faults has none.
C6_EveryErrorSurfaces ==
    Returned =>
        /\ \A d \in Dirs : Range(task[d].errors) \subseteq Range(main.result.errors)
        /\ \A d \in Dirs : task[d].pc = "aborted" =>
               \E x \in Range(main.result.errors) : x.path = task[d].current_path
        /\ (doomed = {} /\ \A e \in DOMAIN kind : kind[e] \in PlainKinds) =>
               main.result.errors = <<>>

\* An invocation that has ended with read_dir refused.
ReadDirRefused(d) == task[d].pc = "returned" /\ ~ReadDirOk(d)

\* The tuple of an invocation whose listing failed, as C7 has it.
EmptyButOneError(d) ==
    /\ task[d].errors = <<IoError(task[d].current_path)>>
    /\ Occurrences(ErrorEncountered, task[d].sent) =
         (IF config.progress_updates THEN 1 ELSE 0)
    /\ task[d].files_count = 0
    /\ task[d].dirs_count = 0
    /\ task[d].current_size = 0
    /\ task[d].matching_files_in_dir = <<>>

\* The tree has one fault: entry d, a reached directory that cannot be listed.
OnlyFaultIsUnlistable(d) ==
    /\ kind[d] = "dir_noread"
    /\ Reached(d) /\ CountsAsDir(d)
    /\ doomed = {}
    /\ \A e \in Entries \ {d} : kind[e] \notin {"dir_noread", "file_nometa",
                                    "link_broken", "ft_err", "readerr"}

\* C7 as claimed: an invocation whose listing fails, in read_dir or in
\* next_entry, returns one IoError tagged with its directory and nothing else.
C7_FailedListingReturnsNothing ==
    \A d \in Dirs :
        (task[d].pc = "returned"
           /\ (~ReadDirOk(d) \/ \E e \in Children(d) : kind[e] = "readerr"))
        => EmptyButOneError(d)

\* C7 as amended: an invocation whose read_dir fails records one IoError tagged
\* with its directory, sends one ErrorEncountered and returns zero files,
\* directories, bytes and no matches; one whose next_entry fails records one
\* IoError tagged with its directory for each failure and keeps what it counts;
\* when the one fault of the tree is a subdirectory that cannot be listed, the
\* scan returns that one error and the counts of every other entry.
C7_FailedReadDirReturnsNothing ==
    /\ \A d \in Dirs : ReadDirRefused(d) => EmptyButOneError(d)
    /\ \A d \in Dirs : task[d].pc = "returned" /\ ReadDirOk(d) =>
           /\ Occurrences(IoError(task[d].current_path), task[d].errors) =
                Cardinality({e \in Children(d) : kind[e] = "readerr"})
           /\ task[d].files_count >=
                Cardinality({e \in Children(d) : CountsAsFile(e)})
    /\ \A d \in Entries : (Returned /\ OnlyFaultIsUnlistable(d)) =>
           /\ main.result.errors = <<IoError(PathOf(d))>>
           /\ main.result.total_files =
                Cardinality({e \in Entries : Reached(e) /\ CountsAsFile(e)})
           /\ main.result.total_directories =
                1 + Cardinality({e \in Entries : Reached(e) /\ CountsAsDir(e)})
           /\ main.result.total_size =
                SumOfSizes({e \in Entries : Reached(e) /\ CountsAsFile(e)})

\* C7 witness: a scan that reports progress has returned Ok with one error, of
\* a subdirectory that could not be listed, and with the file of the
\* subdirectory beside it counted.
C7_UnlistableBesideCounted ==
    /\ Returned
    /\ config.progress_updates
    /\ \E d \in Children(Root) :
         /\ OnlyFaultIsUnlistable(d)
         /\ ReadDirRefused(d)
         /\ task[d].sent = <<ErrorEncountered>>
    /\ \E c \in Children(Root) : task[c].pc = "returned" /\ task[c].files_count = 1
    /\ Len(main.result.errors) = 1
    /\ main.result.total_files = 1

\* C8: if the root is missing or is not a directory, run_scan returns IoError
\* or NotADirectory at once: no permit is acquired, no invocation starts, no
\* reporter is spawned and no progress event is sent.
C8_BadRootFailsFirst ==
    (kind[Root] \in {"missing", "file"} /\ main.pc # "validate") =>
        /\ main.pc = "err"
        /\ main.error = (IF kind[Root] = "missing" THEN IoError(RootPath)
                         ELSE NotADirectory(RootPath))
        /\ permits = 0
        /\ \A t \in DOMAIN task : task[t] = Unspawned
        /\ reporter.pc = "none"
        /\ chan = <<>>

\* C8 witness: run_scan has returned NotADirectory for a root that is a file,
\* progress being enabled.
C8_FileRootRefused ==
    /\ main.pc = "err"
    /\ main.error = NotADirectory(RootPath)
    /\ kind[Root] = "file"
    /\ config.progress_updates

\* C9: a parent whose child ends abnormally sends one ErrorEncountered for it
\* (when it has a progress sink), takes nothing from it, and still awaits and
\* merges every other child: what it returns is what its own listing counted
\* plus the whole tuple of each child that returned.
C9_AbortedChildCostsOnlyItself ==
    \A t \in Dirs :
        (task[t].pc = "returned" /\ ReadDirOk(t)) =>
            LET kids == {e \in Children(t) : CountsAsDir(e)}
                good == kids \ doomed
                Files == [c \in good |-> task[c].files_count]
                Subdirs == [c \in good |-> task[c].dirs_count]
                Bytes == [c \in good |-> task[c].current_size]
                Errors == [c \in good |-> Len(task[c].errors)]
                Matches == [c \in good |-> Len(task[c].matching_files_in_dir)]
                raised == Cardinality({e \in Children(t) : RaisesInLoop(e)}) IN
            /\ Range(task[t].sub_task_paths_to_spawn) = kids
            /\ task[t].awaited = Cardinality(kids)
            /\ \A c \in good : task[c].pc = "returned"
            /\ task[t].files_count =
                 Cardinality({e \in Children(t) : CountsAsFile(e)}) + SumOver(good, Files)
            /\ task[t].dirs_count = Cardinality(kids) + SumOver(good, Subdirs)
            /\ task[t].current_size =
                 SumOfSizes({e \in Children(t) : CountsAsFile(e)}) + SumOver(good, Bytes)
            /\ Len(task[t].errors) = raised + SumOver(good, Errors)
            /\ Len(task[t].matching_files_in_dir) =
                 Cardinality({e \in Children(t) : MatchedInLoop(e)}) + SumOver(good, Matches)
            /\ Occurrences(ErrorEncountered, task[t].sent) =
                 (IF config.progress_updates
                  THEN raised + Cardinality(kids \cap doomed) ELSE 0)

\* C9 witness: the scan has returned Ok; the first child of the root ended
\* abnormally, the root sent one ErrorEncountered for it, and the file of the
\* second child is in the result.
C9_SiblingOfAbortedMerged ==
    /\ Returned
    /\ \E c1, c2 \in Children(Root) :
         /\ c1 < c2
         /\ task[c1].pc = "aborted"
         /\ task[c2].pc = "returned" /\ task[c2].files_count = 1
    /\ task[Root].sent = <<NewItemFound, NewItemFound, ErrorEncountered>>
    /\ main.result.total_files = 1
    /\ main.result.total_directories = 3

\* C10 as claimed: with a pattern, a counted file is in matching_files exactly
\* if the pattern matches its name, and at most once; with no pattern
\* matching_files is empty.
C10_MatchesAreTheFilesThePatternMatches ==
    Returned =>
        LET files == {e \in Entries : Surfaced(e) /\ CountsAsFile(e)}
            found == main.result.matching_files IN
        /\ \A e \in files :
               /\ PathOf(e) \in Range(found) <=>
                    (config.file_pattern # NoPattern
                       /\ IsMatch(config.file_pattern, NameOf(e)))
               /\ Occurrences(PathOf(e), found) <= 1
        /\ config.file_pattern = NoPattern => found = <<>>

\* The entries below entry e.
Below(e) == {x \in Entries : e \in AncestorsIn(parent, x)}

\* The entries of its listing that invocation t has passed over.  (A place of
\* the listing where next_entry() fails yields no entry.)
Seen(t) == {e \in Children(t) : Visited(e) /\ kind[e] # "readerr"}

\* The name of entry e starts with '.'.
DotName(e) == IsHiddenName(NameOf(e))

\* Entry e is a file, or a directory, whatever its name is.
FileByKind(e) ==
    kind[e] = "file" \/ (config.follow_symlinks /\ kind[e] = "link_file")

DirByKind(e) ==
    kind[e] \in {"dir", "dir_noread"} \/ (config.follow_symlinks /\ kind[e] = "link_dir")

\* C11 as claimed: with include_hidden = false an entry whose name starts with
\* '.' adds nothing to the counts, bytes, errors, matches or events of the
\* invocation that lists it, and no invocation is ever started for it or for
\* an entry below it; with include_hidden = true it is counted and traversed
\* like any other.  Stated of an invocation before it merges its children.
C11_HiddenEntriesAreSkipped ==
    /\ \A t \in Dirs : task[t].pc \in {"entries", "spawn"} =>
         LET counted == IF config.include_hidden THEN Seen(t)
                        ELSE {e \in Seen(t) : ~DotName(e)}
             dropped == Seen(t) \ counted IN
         /\ task[t].files_count = Cardinality({e \in counted : FileByKind(e)})
         /\ task[t].dirs_count = Cardinality({e \in counted : DirByKind(e)})
         /\ task[t].current_size = SumOfSizes({e \in counted : FileByKind(e)})
         /\ Range(task[t].sub_task_paths_to_spawn) = {e \in counted : DirByKind(e)}
         /\ \A e \in dropped :
              /\ \A x \in Range(task[t].errors) : x.path # PathOf(e)
              /\ PathOf(e) \notin Range(task[t].matching_files_in_dir)
         /\ Len(task[t].sent) =
              (IF config.progress_updates
               THEN 2 * task[t].files_count + task[t].dirs_count + Len(task[t].errors)
               ELSE 0)
    /\ \A e \in Entries : (~config.include_hidden /\ DotName(e)) =>
           \A x \in {e} \cup Below(e) : task[x] = Unspawned
    /\ \A e \in Entries :
           (/\ Returned /\ config.include_hidden /\ DotName(e)
            /\ DirByKind(e) /\ Surfaced(e) /\ e \notin doomed)
               => task[e].pc = "returned"

\* The symbolic links invocation t has passed over and not skipped as hidden.
LinksSeen(t) == {e \in Seen(t) : FileType(e) = "symlink" /\ ~Skips(e)}

\* The entries invocation t has passed over that are no symbolic links and
\* that it counts as files and as directories.
OwnFiles(t) == {e \in Seen(t) : kind[e] = "file" /\ ~Skips(e)}

OwnDirs(t) == {e \in Seen(t) : kind[e] \in {"dir", "dir_noread"} /\ ~Skips(e)}

\* C12: with follow_symlinks = false a symbolic link adds nothing to the
\* counts, errors or events of the invocation that lists it and is never
\* descended into; with follow_symlinks = true a link to a regular file adds
\* one file and its target's size once, a link to a directory adds one
\* directory and is queued and descended into, and a link whose target cannot
\* be resolved adds one MetadataError and one ErrorEncountered and is neither
\* counted nor descended into.  Stated of an invocation before it merges its
\* children, for links the hidden filter lets through.
C12_SymlinkPolicy ==
    /\ \A t \in Dirs : task[t].pc \in {"entries", "spawn"} =>
         LET links == LinksSeen(t)
             to_file == IF config.follow_symlinks
                        THEN {e \in links : kind[e] = "link_file"} ELSE {}
             to_dir == IF config.follow_symlinks
                       THEN {e \in links : kind[e] = "link_dir"} ELSE {}
             broken == IF config.follow_symlinks
                       THEN {e \in links : kind[e] = "link_broken"} ELSE {} IN
         /\ task[t].files_count = Cardinality(OwnFiles(t)) + Cardinality(to_file)
         /\ task[t].current_size = SumOfSizes(OwnFiles(t)) + SumOfSizes(to_file)
         /\ task[t].dirs_count = Cardinality(OwnDirs(t)) + Cardinality(to_dir)
         /\ Range(task[t].sub_task_paths_to_spawn) = OwnDirs(t) \cup to_dir
         /\ \A e \in links :
              /\ Occurrences(MetadataError(PathOf(e)), task[t].errors) =
                   (IF e \in broken THEN 1 ELSE 0)
              /\ \A x \in Range(task[t].errors) :
                   x.path = PathOf(e) => (e \in broken /\ x = MetadataError(PathOf(e)))
              /\ PathOf(e) \notin Range(task[t].matching_files_in_dir)
         /\ Len(task[t].sent) =
              (IF config.progress_updates
               THEN 2 * task[t].files_count + task[t].dirs_count + Len(task[t].errors)
               ELSE 0)
         /\ Occurrences(ErrorEncountered, task[t].sent) =
              (IF config.progress_updates THEN Len(task[t].errors) ELSE 0)
    /\ \A e \in Entries :
           (FileType(e) = "symlink" /\ ~(config.follow_symlinks /\ kind[e] = "link_dir"))
               => \A x \in {e} \cup Below(e) : task[x] = Unspawned
    /\ \A e \in Entries :
           (/\ Returned /\ config.follow_symlinks /\ kind[e] = "link_dir"
            /\ ~Skips(e) /\ Surfaced(e))
               => task[e].pc = "returned" /\ task[e].next = Len(Listing(e)) + 1

\* C12 witness: a scan that follows links and reports progress has listed a
\* root whose one entry is a link to a 10-byte file: one file, 10 bytes, and
\* the two events of a file.
C12_LinkToFileCountedOnce ==
    /\ Returned
    /\ config.follow_symlinks
    /\ config.progress_updates
    /\ Entries = {1}
    /\ kind[1] = "link_file"
    /\ main.result.total_files = 1
    /\ main.result.total_size = 10
    /\ task[Root].sent = <<NewItemFound, BytesProcessed(10)>>

\* ScanCompleted has been sent: it is in the channel or the reporter took it.
Signalled == main.pc \in {"join_reporter", "ok"}

\* Invocation t is one the root waits for: it was started, and neither it nor
\* an invocation above it ends abnormally.
AwaitedByRoot(t) ==
    /\ task[t].pc # "unspawned"
    /\ \A a \in {t} \cup AncestorsIn(parent, t) : a \notin doomed

\* C13: with progress enabled run_scan has its ScanResult only once the
\* reporter has terminated; ScanCompleted is sent only after the root
\* invocation and every invocation it waited for has returned; the reporter
\* terminates only by receiving ScanCompleted.
C13_ReporterJoinedBeforeResult ==
    config.progress_updates =>
        /\ (main.pc = "ok" \/ main.result # <<>>) => reporter.pc = "finished"
        /\ ScanCompleted \in Range(chan) => Signalled
        /\ Signalled => \A t \in Dirs : AwaitedByRoot(t) => task[t].pc = "returned"
        /\ reporter.pc = "finished" =>
             /\ Signalled
             /\ ScanCompleted \notin Range(chan)
        /\ (Signalled /\ reporter.pc = "running") => ScanCompleted \in Range(chan)

\* C13 witness: run_scan is at handle.await while the reporter still has an
\* event of the traversal and ScanCompleted to receive.
C13_WaitingForReporter ==
    /\ config.progress_updates
    /\ main.pc = "join_reporter"
    /\ reporter.pc = "running"
    /\ Len(chan) >= 2
    /\ chan[Len(chan)] = ScanCompleted
    /\ task[Root].files_count >= 1

\* The configured timeout has elapsed, run_scan not having returned by then.
TimedOut == caller.timeout.some /\ caller.elapsed >= caller.timeout.value

\* C14 as claimed: once a configured timeout has elapsed with the scan still
\* running, the scan is given up: run_scan does not return Ok and no
\* ScanResult is reported.
C14_TimeoutDiscardsTheScan ==
    TimedOut =>
        /\ main.pc # "ok"
        /\ main.result = <<>>

\* The ScanResult of the tree, the flags other than progress_updates and the
\* tasks that end abnormally: that of the walk that runs one invocation at a
\* time and sends nothing.
ResultOfTree ==
    LET ref == OneByOne(Root, RootPath) IN
    [total_files |-> ref.files,
     total_directories |-> ref.dirs + 1,
     total_size |-> ref.size,
     errors |-> ref.errors,
     matching_files |-> ref.matches]

\* C15: with progress_updates = false there is no reporter and nothing is sent
\* or left in the channel for an invocation to wait on, and with either value
\* of progress_updates run_scan returns the one ScanResult of the tree.
C15_ProgressDoesNotChangeTheResult ==
    /\ ~config.progress_updates =>
         /\ reporter = [pc |-> "none", total_items |-> 0, total_bytes |-> 0]
         /\ chan = <<>>
         /\ \A t \in Dirs : task[t].sent = <<>>
         /\ main.pc = "join_reporter" => ENABLED RunScanReturn
    /\ Returned => main.result = ResultOfTree

\* C15 witness: a scan without progress has returned Ok with a file counted
\* and an error recorded, no reporter having existed.
C15_ReturnedWithoutReporter ==
    /\ Returned
    /\ ~config.progress_updates
    /\ reporter.pc = "none"
    /\ main.result.total_files >= 1
    /\ Len(main.result.errors) = 1

\* run_scan has created the semaphore.
LimiterCreated == main.pc \in {"walk", "join_reporter", "ok"}

\* C16 as claimed: for every accepted command line the max_concurrent_tasks
\* that main() hands to run_scan is positive, so the semaphore is never
\* created with no permits.
C16_LimitIsPositive ==
    /\ config.max_concurrent_tasks = ConcurrentTasks(caller.threads, caller.num_cpus)
    /\ LimiterCreated =>
         /\ config.max_concurrent_tasks >= 1
         /\ permits + Cardinality({t \in Dirs : task[t].permit}) >= 1

\* The invocations that hold a permit.
Holders == {t \in Dirs : task[t].permit}

\* C17: an invocation holds a permit exactly while it opens and lists its own
\* directory, never while it spawns or awaits its children or after it has
\* ended; every permit is either available or held by a lister, and once no
\* invocation is running all max_concurrent_tasks permits are available.
C17_PermitHeldOnlyWhileListing ==
    /\ \A t \in Dirs : task[t].permit <=> task[t].pc \in {"read_dir", "entries"}
    /\ LimiterCreated =>
         /\ permits + Cardinality(Holders) = config.max_concurrent_tasks
         /\ (\A t \in Dirs : ~Live(t)) => permits = config.max_concurrent_tasks

\* C17 witness: a parent that has released its permit awaits a child that
\* holds the one permit in use and lists its own directory, after another
\* child has returned from a read_dir that failed.
C17_ChildListsWhileParentAwaits ==
    /\ permits = config.max_concurrent_tasks - 1
    /\ \E t \in Dirs : \E c1, c2 \in Children(t) :
         /\ task[t].pc = "join" /\ ~task[t].permit
         /\ task[c1].pc = "returned" /\ ~ReadDirOk(c1)
         /\ task[c2].pc = "entries" /\ task[c2].permit

\* The children invocation t has awaited so far, and those of them whose tuple
\* it got.
Awaited(t) ==
    {task[t].sub_task_paths_to_spawn[i] : i \in 1..task[t].awaited}

Merged(t) == {c \in Awaited(t) : task[c].pc = "returned"}

\* The step is a merge: invocation t gets the tuple of child c.
Merges(t, c) ==
    /\ task[t].pc = "join"
    /\ task'[t].awaited = task[t].awaited + 1
    /\ c = task[t].sub_task_paths_to_spawn[task[t].awaited + 1]
    /\ task[c].pc = "returned"

\* C18: what a parent has accumulated while it awaits is what its own listing
\* counted plus, once each, the tuples of the children it has awaited and that
\* returned; a child is merged only when it has returned, all of its own
\* children awaited, and its tuple never changes afterwards; no count of an
\* invocation ever decreases; a parent returns only with every child awaited.
C18_MergeOnceAfterCompletion ==
    /\ [](\A t \in Dirs : task[t].pc \in {"join", "returned"} /\ ReadDirOk(t) =>
            /\ task[t].awaited <= Len(task[t].sub_task_paths_to_spawn)
            /\ task[t].pc = "returned" =>
                 task[t].awaited = Len(task[t].sub_task_paths_to_spawn)
            /\ \A c \in Awaited(t) : task[c].pc \in {"returned", "aborted"}
            /\ \A c \in Merged(t) :
                 task[c].awaited = Len(task[c].sub_task_paths_to_spawn)
            /\ task[t].files_count =
                 Cardinality({e \in Children(t) : CountsAsFile(e)})
                   + SumOver(Merged(t), [c \in Merged(t) |-> task[c].files_count])
            /\ task[t].dirs_count =
                 Cardinality({e \in Children(t) : CountsAsDir(e)})
                   + SumOver(Merged(t), [c \in Merged(t) |-> task[c].dirs_count])
            /\ task[t].current_size =
                 SumOfSizes({e \in Children(t) : CountsAsFile(e)})
                   + SumOver(Merged(t), [c \in Merged(t) |-> task[c].current_size])
            /\ Len(task[t].errors) =
                 Cardinality({e \in Children(t) : RaisesInLoop(e)})
                   + SumOver(Merged(t), [c \in Merged(t) |-> Len(task[c].errors)])
            /\ Len(task[t].matching_files_in_dir) =
                 Cardinality({e \in Children(t) : MatchedInLoop(e)})
                   + SumOver(Merged(t),
                             [c \in Merged(t) |-> Len(task[c].matching_files_in_dir)]))
    /\ [][\A t \in Dirs :
            /\ task'[t].files_count >= task[t].files_count
            /\ task'[t].dirs_count >= task[t].dirs_count
            /\ task'[t].current_size >= task[t].current_size
            /\ Len(task'[t].errors) >= Len(task[t].errors)
            /\ Len(task'[t].matching_files_in_dir) >= Len(task[t].matching_files_in_dir)
            /\ task[t].pc = "returned" => task'[t] = task[t]
            /\ \A c \in Children(t) : Merges(t, c) =>
                 /\ task'[t].files_count = task[t].files_count + task[c].files_count
                 /\ task'[t].errors = task[t].errors \o task[c].errors]_vars

\* C18 witness: a parent has merged its first child, whose file it now counts,
\* and awaits its second, which has counted a file of its own that the parent
\* does not yet count.
C18_OneMergedOneRunning ==
    \E t \in Dirs : \E c1, c2 \in Children(t) :
        /\ task[t].pc = "join" /\ task[t].awaited = 1
        /\ task[t].sub_task_paths_to_spawn = <<c1, c2>>
        /\ task[c1].pc = "returned" /\ task[c1].files_count = 1
        /\ Live(c2) /\ task[c2].files_count = 1
        /\ task[t].files_count = 1

\* Entry e is of no kind the traversal acts on: a fifo, socket or device, or
\* an entry whose file_type() fails.
OfNoKind(e) == FileType(e) \in {"other", "err"}

\* The entries that invocation t has passed over and that raise an error
\* which is not the failure to tell their kind.
RaisedSoFar(t) ==
    {e \in Children(t) : Visited(e) /\ RaisesInLoop(e) /\ FileType(e) # "err"}

\* C19 as claimed: an entry that is neither file, directory nor link, or
\* whose kind cannot be determined, adds nothing to the counts of the
\* invocation that lists it, no error to its errors and no ErrorEncountered to
\* its events.  Stated of an invocation before it merges its children.
C19_OtherKindsSkippedSilently ==
    \A t \in Dirs : task[t].pc \in {"entries", "spawn"} =>
        LET rest == {e \in Seen(t) : ~OfNoKind(e) /\ ~Skips(e)} IN
        /\ task[t].files_count = Cardinality({e \in rest : FileByKind(e)})
        /\ task[t].dirs_count = Cardinality({e \in rest : DirByKind(e)})
        /\ task[t].current_size = SumOfSizes({e \in rest : FileByKind(e)})
        /\ \A e \in Seen(t) : OfNoKind(e) =>
             \A x \in Range(task[t].errors) : x.path # PathOf(e)
        /\ Len(task[t].errors) = Cardinality(RaisedSoFar(t))
        /\ Occurrences(ErrorEncountered, task[t].sent) =
             (IF config.progress_updates THEN Cardinality(RaisedSoFar(t)) ELSE 0)

\* The reporter's counters are the totals of the tuple the root returned.
CountersAreTheTotals ==
    /\ reporter.total_items = task[Root].files_count + task[Root].dirs_count + 1
    /\ reporter.total_bytes = task[Root].current_size
    /\ Returned =>
         /\ reporter.total_items =
              main.result.total_files + main.result.total_directories
         /\ reporter.total_bytes = main.result.total_size

\* ScanCompleted is the last event of the channel, if it is there at all.
NothingAfterScanCompleted ==
    \A i \in 1..Len(chan) : chan[i] = ScanCompleted => i = Len(chan)

\* C20 as claimed: with progress enabled nothing is enqueued after
\* ScanCompleted, and when the reporter has terminated nothing is left in the
\* channel and its two counters are total_files + total_directories and
\* total_size of the result.
C20_ReporterCountsTheTotals ==
    config.progress_updates =>
        /\ NothingAfterScanCompleted
        /\ reporter.pc = "finished" => (chan = <<>> /\ CountersAreTheTotals)

\* C20 as amended: if no traversal task ends abnormally the claim holds as it
\* stands; if one does, the reporter has terminated with counters that are at
\* least the totals of the result.
C20_ReporterCountsTheTotalsUnlessAborted ==
    config.progress_updates =>
        /\ doomed = {} =>
             /\ NothingAfterScanCompleted
             /\ reporter.pc = "finished" => (chan = <<>> /\ CountersAreTheTotals)
        /\ reporter.pc = "finished" =>
             /\ reporter.total_items >=
                  task[Root].files_count + task[Root].dirs_count + 1
             /\ reporter.total_bytes >= task[Root].current_size

\* C20 witness: the reporter of a scan in which no task ended abnormally has
\* terminated, having received the events of the root, of a file and of an
\* error: two items, the bytes of the file.
C20_ReporterFinishedWithErrorSeen ==
    /\ config.progress_updates
    /\ doomed = {}
    /\ reporter.pc = "finished"
    /\ Len(task[Root].errors) = 1
    /\ task[Root].files_count = 1
    /\ task[Root].dirs_count = 0
    /\ reporter.total_items = 2
    /\ reporter.total_bytes = task[Root].current_size
    /\ reporter.total_bytes > 0

====
